---- MODULE Spec2Model ----
(***************************************************************************)
(* PrecoZap service worker (src/sw.js): the install and activate handlers, *)
(* the fetch listener and its four strategies, the sync, push and          *)
(* notificationclick handlers, over the host's cache storage, clock and    *)
(* network.                                                                *)
(*                                                                         *)
(* Every await of the source is a step boundary.  A cache.put the source   *)
(* does not await is a write in flight: it is issued by the step that      *)
(* calls it and takes effect (or rejects) in a later step of its own.      *)
(***************************************************************************)
EXTENDS Integers, Sequences, FiniteSets

\* ------------------------------------------------------------ bounds
\* concurrent events handled in one behaviour
MaxProcs == 2
\* advances of the host clock in one behaviour
MaxTicks == 2
\* cache-storage operations the host lets fail in one behaviour
MaxFaults == 1

\* ------------------------------------------------- program constants
CACHE_NAME == "precozap-v1"
API_CACHE == "precozap-api-v1"
TTL_MS == 30 * 60 * 1000
PRECACHE ==
  <<"/index.html", "/manifest.json", "/icons/icon-192x192.png",
    "/icons/icon-512x512.png">>

\* Stores left behind by earlier versions of the worker.
OLD_SHELL == "precozap-v0"
OLD_API == "precozap-api-v0"
StoreNames == {CACHE_NAME, API_CACHE, OLD_SHELL, OLD_API}

\* Date.now() when the worker starts, and the amounts by which it advances.
StartNow == 2 * TTL_MS
TickSteps == {1, TTL_MS - 1}

Procs == 1 .. MaxProcs

\* ------------------------------------------------------------ values
\* Strings of the program whose characters matter are sequences of
\* one-character strings.
Digits == <<"0", "1", "2", "3", "4", "5", "6", "7", "8", "9">>

DigitValue(c) == CHOOSE d \in 0 .. 9 : Digits[d + 1] = c

IsDigit(c) == \E d \in 0 .. 9 : Digits[d + 1] = c

\* Number.prototype.toString() of a non-negative integer
RECURSIVE toString(_)
toString(n) ==
  IF n < 10 THEN <<Digits[n + 1]>>
  ELSE toString(n \div 10) \o <<Digits[(n % 10) + 1]>>

\* parseInt(s): the value of the longest prefix of decimal digits, NaN when
\* there is none.  NaN is -1 here: Fresh makes the comparison with it false,
\* as every comparison with NaN is.
NaN == -1

RECURSIVE DigitPrefix(_)
DigitPrefix(s) ==
  IF s = <<>> \/ ~IsDigit(Head(s)) THEN <<>>
  ELSE <<Head(s)>> \o DigitPrefix(Tail(s))

RECURSIVE DigitsValue(_)
DigitsValue(s) ==
  IF s = <<>> THEN 0
  ELSE DigitsValue(SubSeq(s, 1, Len(s) - 1)) * 10 + DigitValue(s[Len(s)])

ParseInt(s) ==
  IF DigitPrefix(s) = <<>> THEN NaN ELSE DigitsValue(DigitPrefix(s))

\* JSON.stringify of a flat object, given as its key/value pairs in
\* insertion order; a value is a string, a boolean or the empty array.
JSONValue(v) ==
  CASE v.t = "string" -> "\"" \o v.s \o "\""
    [] v.t = "boolean" -> (IF v.b THEN "true" ELSE "false")
    [] v.t = "array" -> "[]"

RECURSIVE JSONMembers(_)
JSONMembers(kvs) ==
  IF kvs = <<>> THEN ""
  ELSE "\"" \o kvs[1].k \o "\":" \o JSONValue(kvs[1].v)
       \o (IF Len(kvs) > 1 THEN "," ELSE "") \o JSONMembers(Tail(kvs))

JSONStringify(kvs) == "{" \o JSONMembers(kvs) \o "}"

JStr(s) == [t |-> "string", s |-> s, b |-> FALSE]
JBool(b) == [t |-> "boolean", s |-> "", b |-> b]
JEmptyArray == [t |-> "array", s |-> "", b |-> FALSE]

\* Headers: a function from header names to values.
NoHeaders == [n \in {} |-> <<>>]
JSONHeaders == [n \in {"Content-Type"} |-> <<"application/json">>]
NetHeaders == [n \in {"Content-Type"} |-> <<"text/plain">>]

\* headers.set(name, value) on a copy of h
HeadersSet(h, name, value) ==
  [n \in DOMAIN h \cup {name} |-> IF n = name THEN value ELSE h[n]]

\* A Response, and the two values that stand where a Response may be missing.
Response(status, body, headers) ==
  [kind |-> "response", status |-> status, body |-> body, headers |-> headers]

Undefined == [kind |-> "undefined"]

IsResponse(x) == x.kind = "response"

\* response.ok
Ok(r) == r.status >= 200 /\ r.status <= 299

\* ---------------------------------------------------------- requests
\* A request is named; Url gives the parts of its URL the worker reads.
Requests == {"ext", "local", "geo", "cdn", "shell", "other"}

\* A URL: its scheme and its hostname in chunks, its port ("" when default).
URL(scheme, hostname, port) ==
  [scheme |-> scheme, hostname |-> hostname, port |-> port]

Url(r) ==
  CASE r = "ext" -> URL(<<"chrome-extension">>, <<"abcdef">>, "")
    [] r = "local" -> URL(<<"http">>, <<"localhost">>, "")
    [] r = "geo" -> URL(<<"http", "s">>,
                        <<"nominatim", ".", "openstreetmap", ".org">>, "")
    [] r = "cdn" -> URL(<<"http", "s">>, <<"unpkg.com">>, "")
    [] r = "shell" -> URL(<<"http", "s">>, <<"precozap.app">>, "")
    [] r = "other" -> URL(<<"http", "s">>, <<"example", ".org">>, "")

\* String.prototype.startsWith / includes over the chunks of a string
StartsWith(s, prefix) == Len(s) > 0 /\ s[1] = prefix

Includes(s, part) == \E i \in 1 .. Len(s) : s[i] = part

\* url.origin: scheme, host and port
Origin(u) == <<u.scheme, u.hostname, u.port>>

\* self.location.origin where the application is deployed
SelfOrigin == Origin(Url("shell"))

\* The requests of the pre-cache list; "shell" is the request for /index.html.
RequestKey(path) == IF path = "/index.html" THEN "shell" ELSE path

PrecacheKeys == {RequestKey(PRECACHE[i]) : i \in 1 .. Len(PRECACHE)}

\* The requests a store can hold an entry for.
Keys == Requests \cup PrecacheKeys

VARIABLES
  state,       \* the worker's ServiceWorker.state
  cacheKeys,   \* caches.keys(): the names of the existing stores, oldest first
  store,       \* store[name][request]: the entry, or Undefined
  now,         \* Date.now()
  ticks,       \* clock advances so far
  faults,      \* cache-storage operations that failed so far
  actPc,       \* where the activate handler is
  actKeys,     \* the activate handler's `keys` (caches.keys()), while it runs
  delPending,  \* caches.delete calls issued and not yet settled
  delRejected, \* a caches.delete rejected: Promise.all has rejected
  claimed,     \* self.clients.claim() was called
  pc,          \* pc[p]: where fetch handler p is
  req,         \* req[p]: event.request
  strategy,    \* strategy[p]: what the fetch listener dispatched to
  cached,      \* cached[p]: the strategy's local `cached`
  response,    \* response[p]: the strategy's local `response`
  headers,     \* headers[p]: networkFirstWithCache's local `headers`
  result,      \* result[p]: what the promise given to respondWith settled to
  put,         \* put[p]: the cache.put handler p issued
  hist,        \* hist[p]: what happened in handler p (read by the properties only)
  instPc,      \* where the install handler is
  assets,      \* assets[i]: what became of addAll's fetch of PRECACHE[i]
  skipWaitingCalled, \* self.skipWaiting() was called
  data,        \* data[p]: event.data of a push event, event.tag of a sync event
  cls          \* a URL and a deployment given to the fetch listener's checks

vars ==
  <<state, cacheKeys, store, now, ticks, faults, actPc, actKeys, delPending,
    delRejected, claimed, pc, req, strategy, cached, response, headers,
    result, put, hist, instPc, assets, skipWaitingCalled, data, cls>>

storeVars == <<cacheKeys, store>>
actVars == <<state, actPc, actKeys, delPending, delRejected, claimed>>
procVars == <<pc, req, strategy, cached, response, headers, result, put, hist>>
instVars == <<instPc, assets, skipWaitingCalled>>
extVars == <<instVars, data, cls>>

EmptyStore == [r \in Keys |-> Undefined]

\* ------------------------------------------------------------- stores
\* caches.open(name): creates the store when it does not exist
OpenedKeys(keys, name) ==
  IF Includes(keys, name) THEN keys ELSE Append(keys, name)

\* caches.delete(name)
RemoveKey(keys, name) == SelectSeq(keys, LAMBDA k : k # name)

\* ------------------------------------------------------------- install
\* What the network answers to addAll's fetch of PRECACHE[i].
Precached(i) == Response(200, PRECACHE[i], NetHeaders)

NoAssets == [i \in 1 .. Len(PRECACHE) |-> "none"]

\* The host fires the install event on the new worker.
InstallEvent ==
  /\ state = "installing"
  /\ instPc = "idle"
  /\ instPc' = "open"
  /\ UNCHANGED <<state, storeVars, now, ticks, faults, actVars, procVars,
                 assets, skipWaitingCalled, data, cls>>

\* caches.open(CACHE_NAME) resolves; cache.addAll(PRECACHE) fetches every
\* asset of the list.
InstOpen ==
  /\ instPc = "open"
  /\ cacheKeys' = OpenedKeys(cacheKeys, CACHE_NAME)
  /\ assets' = [i \in 1 .. Len(PRECACHE) |-> "pending"]
  /\ instPc' = "addAll"
  /\ UNCHANGED <<store, now, ticks, faults, actVars, procVars,
                 skipWaitingCalled, data, cls>>

\* One of addAll's fetches settles.
AssetFetch(i, outcome) ==
  /\ instPc = "addAll"
  /\ assets[i] = "pending"
  /\ assets' = [assets EXCEPT ![i] = outcome]
  /\ UNCHANGED <<storeVars, now, ticks, faults, actVars, procVars, instPc,
                 skipWaitingCalled, data, cls>>

\* Faulty variant: the assets that were fetched are stored, the others skipped.
AddAllCompleteLenient(as) == \A i \in 1 .. Len(PRECACHE) : as[i] # "pending"

\* addAll goes on to store when every fetch returned an ok response.
AddAllComplete(as) == \A i \in 1 .. Len(PRECACHE) : as[i] = "ok"

\* addAll resolves: every asset is stored in the shell store, in one batch.
InstAddAll ==
  /\ instPc = "addAll"
  /\ AddAllComplete(assets)
  /\ store' = [store EXCEPT ![CACHE_NAME] =
                 [r \in Keys |->
                   IF \E i \in 1 .. Len(PRECACHE) :
                        RequestKey(PRECACHE[i]) = r /\ assets[i] = "ok"
                   THEN Precached(CHOOSE i \in 1 .. Len(PRECACHE) :
                                    RequestKey(PRECACHE[i]) = r)
                   ELSE store[CACHE_NAME][r]]]
  /\ instPc' = "then"
  /\ UNCHANGED <<cacheKeys, now, ticks, faults, actVars, procVars, assets,
                 skipWaitingCalled, data, cls>>

\* .then(() => self.skipWaiting()): the promise handed to waitUntil resolves
\* and the host marks the worker installed.
InstSkipWaiting ==
  /\ instPc = "then"
  /\ skipWaitingCalled' = TRUE
  /\ instPc' = "done"
  /\ state' = "installed"
  /\ UNCHANGED <<storeVars, now, ticks, faults, actPc, actKeys, delPending,
                 delRejected, claimed, procVars, assets, data, cls>>

\* A fetch of addAll rejected or returned a response that is not ok: addAll
\* rejects, nothing is stored, the .then callback is skipped, the promise
\* handed to waitUntil rejects and the host discards the worker.
InstReject ==
  /\ instPc = "addAll"
  /\ \E i \in 1 .. Len(PRECACHE) : assets[i] \in {"bad", "error"}
  /\ instPc' = "rejected"
  /\ state' = "redundant"
  /\ UNCHANGED <<storeVars, now, ticks, faults, actPc, actKeys, delPending,
                 delRejected, claimed, procVars, assets, skipWaitingCalled,
                 data, cls>>

\* caches.open, or the write of addAll, rejects: the same end.
InstFault ==
  /\ instPc \in {"open", "addAll"}
  /\ instPc = "addAll" => AddAllComplete(assets)
  /\ faults < MaxFaults
  /\ faults' = faults + 1
  /\ instPc' = "rejected"
  /\ state' = "redundant"
  /\ UNCHANGED <<storeVars, now, ticks, actPc, actKeys, delPending,
                 delRejected, claimed, procVars, assets, skipWaitingCalled,
                 data, cls>>

\* ------------------------------------------------------------ activate
\* Faulty variants of the filter: only the previous shell store is stale;
\* only the shell store is kept.
StaleKeysPreviousShellOnly(keys) ==
  {keys[i] : i \in {j \in 1 .. Len(keys) : keys[j] = OLD_SHELL}}

StaleKeysKeepShellOnly(keys) ==
  {keys[i] : i \in {j \in 1 .. Len(keys) : keys[j] # CACHE_NAME}}

\* keys.filter(k => k !== CACHE_NAME && k !== API_CACHE)
StaleKeys(keys) ==
  {keys[i] : i \in {j \in 1 .. Len(keys) :
                      keys[j] # CACHE_NAME /\ keys[j] # API_CACHE}}

\* The host fires the activate event on the installed worker.
ActivateEvent ==
  /\ state = "installed"
  /\ state' = "activating"
  /\ actPc' = "keys"
  /\ UNCHANGED <<extVars, storeVars, now, ticks, faults, actKeys, delPending, delRejected,
                 claimed, procVars>>

\* caches.keys() resolves: every stale store's caches.delete is issued.
ActKeys ==
  /\ actPc = "keys"
  /\ actKeys' = cacheKeys
  /\ delPending' = StaleKeys(cacheKeys)
  /\ actPc' = "deleting"
  /\ UNCHANGED <<extVars, state, storeVars, now, ticks, faults, delRejected, claimed, procVars>>

\* One caches.delete resolves: the store is gone.
DeleteDone(k) ==
  /\ k \in delPending
  /\ delPending' = delPending \ {k}
  /\ cacheKeys' = RemoveKey(cacheKeys, k)
  /\ store' = [store EXCEPT ![k] = EmptyStore]
  /\ UNCHANGED <<extVars, state, now, ticks, faults, actPc, actKeys, delRejected, claimed,
                 procVars>>

\* One caches.delete rejects: the store stays, Promise.all rejects.
DeleteFault(k) ==
  /\ k \in delPending
  /\ faults < MaxFaults
  /\ faults' = faults + 1
  /\ delPending' = delPending \ {k}
  /\ delRejected' = TRUE
  /\ UNCHANGED <<extVars, state, storeVars, now, ticks, actPc, actKeys, claimed, procVars>>

\* Promise.all resolved: .then(() => self.clients.claim())
ActClaim ==
  /\ actPc = "deleting"
  /\ delPending = {}
  /\ ~delRejected
  /\ claimed' = TRUE
  /\ actPc' = "done"
  /\ state' = "activated"
  /\ actKeys' = <<>>
  /\ UNCHANGED <<extVars, storeVars, now, ticks, faults, delPending, delRejected, procVars>>

\* Promise.all rejected: the .then callback is skipped, the promise handed to
\* waitUntil rejects, and the host activates the worker all the same.
ActReject ==
  /\ actPc = "deleting"
  /\ delRejected
  /\ actPc' = "rejected"
  /\ state' = "activated"
  /\ actKeys' = <<>>
  /\ UNCHANGED <<extVars, storeVars, now, ticks, faults, delPending, delRejected, claimed,
                 procVars>>

\* ------------------------------------------------------------- clock
\* Date.now() advances.  Only a running fetch handler reads the clock, so it
\* is advanced only while one runs.
Tick ==
  /\ ticks < MaxTicks
  /\ \E p \in Procs : pc[p] \notin {"idle", "done"}
  /\ \E d \in TickSteps : now' = now + d
  /\ ticks' = ticks + 1
  /\ UNCHANGED <<extVars, storeVars, actVars, faults, procVars>>

\* --------------------------------------------------------------- fetch
\* The synthetic responses of the source.
ServidorOfflineBody ==
  JSONStringify(<<[k |-> "error", v |-> JStr("Servidor offline")],
                  [k |-> "ok", v |-> JBool(FALSE)]>>)

OfflineBody ==
  JSONStringify(<<[k |-> "error", v |-> JStr("offline")],
                  [k |-> "elements", v |-> JEmptyArray]>>)

ServidorOfflineResponse == Response(200, ServidorOfflineBody, JSONHeaders)

OfflineJSONResponse == Response(200, OfflineBody, JSONHeaders)

Offline503Response == Response(503, "Offline", NoHeaders)

\* What the network answers to handler p's fetch: a fresh body of its own.
FreshBody(p) == <<"fresh-1", "fresh-2", "fresh-3", "fresh-4">>[p]

NetResponse(p, outcome) ==
  Response(IF outcome = "ok" THEN 200 ELSE 500, FreshBody(p), NetHeaders)

NetOutcomes == {"ok", "bad", "error"}

\* The fetch listener's chain of checks: the strategy a request is handed to.
\* Faulty variant: the same-origin check comes first.
ClassifyUrlSameOriginFirst(url, location) ==
  IF ~StartsWith(url.scheme, "http") THEN "ignored"
  ELSE IF Origin(url) = location THEN "staleWhileRevalidate"
  ELSE IF url.hostname = <<"localhost">> \/ url.hostname = <<"127.0.0.1">>
    THEN "networkOnly"
  ELSE IF Includes(url.hostname, "openstreetmap")
          \/ Includes(url.hostname, "overpass-api")
          \/ Includes(url.hostname, "nominatim")
    THEN "networkFirstWithCache"
  ELSE IF Includes(url.hostname, "unpkg.com")
          \/ Includes(url.hostname, "fonts.googleapis")
          \/ Includes(url.hostname, "fonts.gstatic")
    THEN "cacheFirst"
  ELSE "ignored"

ClassifyUrl(url, location) ==
  IF ~StartsWith(url.scheme, "http") THEN "ignored"
  ELSE IF url.hostname = <<"localhost">> \/ url.hostname = <<"127.0.0.1">>
    THEN "networkOnly"
  ELSE IF Includes(url.hostname, "openstreetmap")
          \/ Includes(url.hostname, "overpass-api")
          \/ Includes(url.hostname, "nominatim")
    THEN "networkFirstWithCache"
  ELSE IF Includes(url.hostname, "unpkg.com")
          \/ Includes(url.hostname, "fonts.googleapis")
          \/ Includes(url.hostname, "fonts.gstatic")
    THEN "cacheFirst"
  ELSE IF Origin(url) = location THEN "staleWhileRevalidate"
  ELSE "ignored"

Classify(r) == ClassifyUrl(Url(r), SelfOrigin)

FirstPc(s) ==
  CASE s = "networkOnly" -> "no_fetch"
    [] s = "networkFirstWithCache" -> "nf_fetch"
    [] s = "cacheFirst" -> "cf_match"
    [] s = "staleWhileRevalidate" -> "swr_open"
    [] s = "ignored" -> "done"

\* Faulty variant of the lookup: only the API store is searched.
CachesMatchApiOnly(keys, st, r) ==
  IF Includes(keys, API_CACHE) THEN st[API_CACHE][r] ELSE Undefined

\* caches.match(request): the entry of the oldest store that holds one
RECURSIVE CachesMatch(_, _, _)
CachesMatch(keys, st, r) ==
  IF keys = <<>> THEN Undefined
  ELSE IF st[Head(keys)][r] # Undefined THEN st[Head(keys)][r]
  ELSE CachesMatch(Tail(keys), st, r)

NoPut == [state |-> "none", name |-> "", req |-> "", entry |-> Undefined]

\* cache.put(request, entry) on the store `name`, issued and not awaited
IssuedPut(name, r, entry) ==
  [state |-> "pending", name |-> name, req |-> r, entry |-> entry]

Pending == [kind |-> "pending"]
Rejected == [kind |-> "rejected"]
PassThrough == [kind |-> "passthrough"]

NoHist ==
  [net |-> "none", fetchCalls |-> 0, storeFault |-> FALSE, early |-> FALSE,
   tResolved |-> -1,
   priorOk |-> FALSE, priorWritten |-> FALSE]

\* An earlier cacheFirst of the same request has returned an ok network
\* response (and, for `written`, its put has taken effect).
PriorOk(r, written) ==
  \E q \in Procs :
    /\ req[q] = r
    /\ strategy[q] = "cacheFirst"
    /\ pc[q] = "done"
    /\ hist[q].net = "ok"
    /\ result[q] = response[q]
    /\ written => put[q].state = "written"

\* The host dispatches a fetch event to the active worker.  Handlers are
\* numbered in the order their events arrive.
FetchEvent(p, r) ==
  /\ state = "activated"
  /\ pc[p] = "idle"
  /\ \A q \in Procs : q < p => pc[q] # "idle"
  /\ req' = [req EXCEPT ![p] = r]
  /\ strategy' = [strategy EXCEPT ![p] = Classify(r)]
  /\ pc' = [pc EXCEPT ![p] = FirstPc(Classify(r))]
  /\ result' = [result EXCEPT ![p] =
                  IF Classify(r) = "ignored" THEN PassThrough ELSE Pending]
  /\ hist' = [hist EXCEPT ![p].priorOk = PriorOk(r, FALSE),
                          ![p].priorWritten = PriorOk(r, TRUE),
                          ![p].fetchCalls =
                             IF Classify(r) \in {"networkOnly", "networkFirstWithCache"}
                             THEN 1 ELSE 0]
  /\ UNCHANGED <<extVars, storeVars, actVars, now, ticks, faults, cached, response,
                 headers, put>>

\* ---- network only: fetch(request).catch(() => new Response(...))
\* Faulty variant: the fallback of the geo-data strategy is used.
NetworkOnlyResultGeoStub(p, outcome) ==
  IF outcome = "error" THEN OfflineJSONResponse ELSE NetResponse(p, outcome)

NetworkOnlyResult(p, outcome) ==
  IF outcome = "error" THEN ServidorOfflineResponse ELSE NetResponse(p, outcome)

NoFetch(p, outcome) ==
  /\ pc[p] = "no_fetch"
  /\ result' = [result EXCEPT ![p] = NetworkOnlyResult(p, outcome)]
  /\ hist' = [hist EXCEPT ![p].net = outcome]
  /\ pc' = [pc EXCEPT ![p] = "done"]
  /\ UNCHANGED <<extVars, storeVars, actVars, now, ticks, faults, req, strategy, cached,
                 response, headers, put>>

\* ---- cacheFirst
\* const cached = await caches.match(request); if (cached) return cached;
\* otherwise fetch(request) is called.
CfMatch(p) ==
  /\ pc[p] = "cf_match"
  /\ LET c == CachesMatch(cacheKeys, store, req[p]) IN
       /\ cached' = [cached EXCEPT ![p] = c]
       /\ IF c # Undefined
          THEN /\ result' = [result EXCEPT ![p] = c]
               /\ pc' = [pc EXCEPT ![p] = "done"]
               /\ hist' = hist
          ELSE /\ result' = result
               /\ pc' = [pc EXCEPT ![p] = "cf_fetch"]
               /\ hist' = [hist EXCEPT ![p].fetchCalls = 1]
  /\ UNCHANGED <<extVars, storeVars, actVars, now, ticks, faults, req, strategy,
                 response, headers, put>>

\* await fetch(request) settles: a rejection is caught, a response that is
\* not ok is returned as it is, an ok one goes on to caches.open.
CfFetch(p, outcome) ==
  /\ pc[p] = "cf_fetch"
  /\ hist' = [hist EXCEPT ![p].net = outcome]
  /\ IF outcome = "error"
     THEN /\ result' = [result EXCEPT ![p] = Offline503Response]
          /\ pc' = [pc EXCEPT ![p] = "done"]
          /\ response' = response
     ELSE /\ response' = [response EXCEPT ![p] = NetResponse(p, outcome)]
          /\ IF Ok(NetResponse(p, outcome))
             THEN /\ pc' = [pc EXCEPT ![p] = "cf_open"]
                  /\ result' = result
             ELSE /\ pc' = [pc EXCEPT ![p] = "done"]
                  /\ result' = [result EXCEPT ![p] = NetResponse(p, outcome)]
  /\ UNCHANGED <<extVars, storeVars, actVars, now, ticks, faults, req, strategy, cached,
                 headers, put>>

\* await caches.open(CACHE_NAME) resolves; cache.put(request, response.clone())
\* is issued; return response.
\* Faulty variant: the copy goes to the API store.
CfPutIntoApi(p) == IssuedPut(API_CACHE, req[p], response[p])

CfPut(p) == IssuedPut(CACHE_NAME, req[p], response[p])

CfOpen(p) ==
  /\ pc[p] = "cf_open"
  /\ cacheKeys' = OpenedKeys(cacheKeys, CACHE_NAME)
  /\ put' = [put EXCEPT ![p] = CfPut(p)]
  /\ result' = [result EXCEPT ![p] = response[p]]
  /\ pc' = [pc EXCEPT ![p] = "done"]
  /\ UNCHANGED <<extVars, store, actVars, now, ticks, faults, req, strategy, cached,
                 response, headers, hist>>

\* ---- staleWhileRevalidate
\* const cache = await caches.open(CACHE_NAME)
SwrOpen(p) ==
  /\ pc[p] = "swr_open"
  /\ cacheKeys' = OpenedKeys(cacheKeys, CACHE_NAME)
  /\ pc' = [pc EXCEPT ![p] = "swr_match"]
  /\ UNCHANGED <<extVars, store, actVars, now, ticks, faults, req, strategy, cached,
                 response, headers, result, put, hist>>

\* Faulty variant: return fetchPromise, whatever was cached.
SwrReturnAwaitNetwork(c) == Pending

\* return cached || fetchPromise: what respondWith has once the function
\* returns (Pending: it waits for fetchPromise).
SwrReturn(c) == IF c # Undefined THEN c ELSE Pending

\* const cached = await cache.match(request); fetch(request) is called and
\* the function returns.
SwrMatch(p) ==
  /\ pc[p] = "swr_match"
  /\ cached' = [cached EXCEPT ![p] = store[CACHE_NAME][req[p]]]
  /\ result' = [result EXCEPT ![p] = SwrReturn(store[CACHE_NAME][req[p]])]
  /\ hist' = [hist EXCEPT ![p].fetchCalls = 1,
                          ![p].early = SwrReturn(store[CACHE_NAME][req[p]]) # Pending]
  /\ pc' = [pc EXCEPT ![p] = "swr_fetch"]
  /\ UNCHANGED <<extVars, storeVars, actVars, now, ticks, faults, req, strategy,
                 response, headers, put>>

\* Faulty variants: the fresh copy is not stored; it is stored in the API
\* store; the response is stored whatever its status.
SwrPutAlways(p, resp) == IssuedPut(CACHE_NAME, req[p], resp)

SwrPutNever(p, resp) == NoPut

SwrPutIntoApi(p, resp) ==
  IF Ok(resp) THEN IssuedPut(API_CACHE, req[p], resp) ELSE NoPut

\* if (response.ok) cache.put(request, response.clone())
SwrPut(p, resp) ==
  IF Ok(resp) THEN IssuedPut(CACHE_NAME, req[p], resp) ELSE NoPut

\* fetchPromise settles: .then(response => {...; return response})
\* .catch(() => cached).  It is what respondWith gets when nothing was cached.
SwrFetch(p, outcome) ==
  /\ pc[p] = "swr_fetch"
  /\ hist' = [hist EXCEPT ![p].net = outcome]
  /\ pc' = [pc EXCEPT ![p] = "done"]
  /\ IF outcome = "error"
     THEN /\ response' = response
          /\ put' = put
          /\ result' = [result EXCEPT ![p] =
                          IF result[p] = Pending THEN cached[p] ELSE result[p]]
     ELSE /\ response' = [response EXCEPT ![p] = NetResponse(p, outcome)]
          /\ put' = [put EXCEPT ![p] = SwrPut(p, NetResponse(p, outcome))]
          /\ result' = [result EXCEPT ![p] =
                          IF result[p] = Pending THEN NetResponse(p, outcome)
                          ELSE result[p]]
  /\ UNCHANGED <<extVars, storeVars, actVars, now, ticks, faults, req, strategy, cached,
                 headers>>

\* ---- networkFirstWithCache(request, API_CACHE, 30 * 60 * 1000)
\* await fetch(request) settles: a rejection and a response that is not ok
\* both end in the catch block.
NfFetch(p, outcome) ==
  /\ pc[p] = "nf_fetch"
  /\ hist' = [hist EXCEPT ![p].net = outcome,
                          ![p].tResolved = IF outcome = "ok" THEN now ELSE -1]
  /\ IF outcome = "error"
     THEN /\ response' = response
          /\ pc' = [pc EXCEPT ![p] = "nf_c_open"]
     ELSE /\ response' = [response EXCEPT ![p] = NetResponse(p, outcome)]
          /\ pc' = [pc EXCEPT ![p] =
                      IF Ok(NetResponse(p, outcome)) THEN "nf_open" ELSE "nf_c_open"]
  /\ UNCHANGED <<extVars, storeVars, actVars, now, ticks, faults, req, strategy, cached,
                 headers, result, put>>

\* Faulty variant: the timestamp is written in seconds.
CachedAtStampSeconds(t) == toString(t \div 1000)

\* Date.now().toString()
CachedAtStamp(t) == toString(t)

\* await caches.open(cacheName) resolves; headers = new Headers(response.headers);
\* headers.set('sw-cached-at', Date.now().toString()); response.clone().text()
\* is called.
NfOpen(p) ==
  /\ pc[p] = "nf_open"
  /\ cacheKeys' = OpenedKeys(cacheKeys, API_CACHE)
  /\ headers' = [headers EXCEPT ![p] =
                   HeadersSet(response[p].headers, "sw-cached-at", CachedAtStamp(now))]
  /\ pc' = [pc EXCEPT ![p] = "nf_text"]
  /\ UNCHANGED <<extVars, store, actVars, now, ticks, faults, req, strategy, cached,
                 response, result, put, hist>>

\* return response: the response handed to the caller
NfReturned(resp, cloned) == resp

\* Faulty variant: `headers` is shared by the invocations (the first one's).
NfClonedSharedHeaders(p) ==
  Response(response[p].status, response[p].body, headers[1])

\* new Response(await response.clone().text(), {status: response.status, headers})
NfCloned(p) == Response(response[p].status, response[p].body, headers[p])

\* await response.clone().text() resolves; cloned = new Response(text,
\* {status, headers}); cache.put(request, cloned) is issued; return response.
NfText(p) ==
  /\ pc[p] = "nf_text"
  /\ put' = [put EXCEPT ![p] = IssuedPut(API_CACHE, req[p], NfCloned(p))]
  /\ result' = [result EXCEPT ![p] = NfReturned(response[p], NfCloned(p))]
  /\ headers' = [headers EXCEPT ![p] = NoHeaders]
  /\ hist' = [hist EXCEPT ![p].tResolved = -1]
  /\ pc' = [pc EXCEPT ![p] = "done"]
  /\ UNCHANGED <<extVars, storeVars, actVars, now, ticks, faults, req, strategy, cached,
                 response>>

\* await response.clone().text() rejects (the body could not be read): caught.
NfTextFail(p) ==
  /\ pc[p] = "nf_text"
  /\ pc' = [pc EXCEPT ![p] = "nf_c_open"]
  /\ headers' = [headers EXCEPT ![p] = NoHeaders]
  /\ hist' = [hist EXCEPT ![p].tResolved = -1]
  /\ UNCHANGED <<extVars, storeVars, actVars, now, ticks, faults, req, strategy, cached,
                 response, result, put>>

\* catch: const cache = await caches.open(cacheName)
NfCatchOpen(p) ==
  /\ pc[p] = "nf_c_open"
  /\ cacheKeys' = OpenedKeys(cacheKeys, API_CACHE)
  /\ pc' = [pc EXCEPT ![p] = "nf_c_match"]
  /\ UNCHANGED <<extVars, store, actVars, now, ticks, faults, req, strategy, cached,
                 response, headers, result, put, hist>>

\* parseInt(cached.headers.get('sw-cached-at') || '0')
CachedAt(entry) ==
  ParseInt(IF "sw-cached-at" \in DOMAIN entry.headers
              /\ entry.headers["sw-cached-at"] # <<>>
           THEN entry.headers["sw-cached-at"]
           ELSE <<"0">>)

\* Faulty variants: the age is not looked at; an entry exactly ttlMs old
\* still counts as fresh.
FreshWithoutTTL(t, cachedAt, ttlMs) == cachedAt # NaN

FreshInclusive(t, cachedAt, ttlMs) == cachedAt # NaN /\ t - cachedAt <= ttlMs

\* Date.now() - cachedAt < ttlMs (false when cachedAt is NaN)
Fresh(t, cachedAt, ttlMs) == cachedAt # NaN /\ t - cachedAt < ttlMs

\* catch: const cached = await cache.match(request); the entry when it is
\* there and fresh, the JSON stub otherwise.
NfCatchMatch(p) ==
  /\ pc[p] = "nf_c_match"
  /\ LET c == store[API_CACHE][req[p]] IN
       /\ cached' = [cached EXCEPT ![p] = c]
       /\ result' = [result EXCEPT ![p] =
                       IF c # Undefined /\ Fresh(now, CachedAt(c), TTL_MS)
                       THEN c ELSE OfflineJSONResponse]
  /\ pc' = [pc EXCEPT ![p] = "done"]
  /\ UNCHANGED <<extVars, storeVars, actVars, now, ticks, faults, req, strategy,
                 response, headers, put, hist>>

\* ---- cache storage: faults, and the writes in flight
\* An awaited caches.open / caches.match / cache.match rejects.  Inside a try
\* block the rejection is caught; elsewhere the strategy's promise rejects.
\* What the strategy's promise settles to when the awaited operation at `at`
\* rejects: caches.open in cacheFirst's try block ends in its catch (503),
\* caches.open in networkFirstWithCache's try block ends in its catch block
\* (the promise stays as it is, res), every other rejection propagates.
FaultOutcome(at, res) ==
  CASE at = "cf_open" -> Offline503Response
    [] at = "nf_open" -> res
    [] OTHER -> Rejected

StoreFault(p) ==
  /\ pc[p] \in {"cf_match", "cf_open", "swr_open", "swr_match", "nf_open",
                "nf_c_open", "nf_c_match"}
  /\ faults < MaxFaults
  /\ faults' = faults + 1
  /\ hist' = [hist EXCEPT ![p].storeFault = TRUE, ![p].tResolved = -1]
  /\ pc' = [pc EXCEPT ![p] = IF pc[p] = "nf_open" THEN "nf_c_open" ELSE "done"]
  /\ result' = [result EXCEPT ![p] = FaultOutcome(pc[p], result[p])]
  /\ UNCHANGED <<extVars, storeVars, actVars, now, ticks, req, strategy, cached,
                 response, headers, put>>

\* A put in flight takes effect: the entry is overwritten whole.
PutDone(p) ==
  /\ put[p].state = "pending"
  /\ store' = [store EXCEPT ![put[p].name][put[p].req] = put[p].entry]
  /\ put' = [put EXCEPT ![p].state = "written"]
  /\ UNCHANGED <<extVars, cacheKeys, actVars, now, ticks, faults, pc, req, strategy,
                 cached, response, headers, result, hist>>

\* A put in flight rejects; nothing awaits it.
PutFault(p) ==
  /\ put[p].state = "pending"
  /\ faults < MaxFaults
  /\ faults' = faults + 1
  /\ put' = [put EXCEPT ![p].state = "failed"]
  /\ UNCHANGED <<extVars, storeVars, actVars, now, ticks, pc, req, strategy, cached,
                 response, headers, result, hist>>

\* --------------------------------------------------------- sync, push
NoData == [kind |-> "none", text |-> ""]

Thrown == [kind |-> "thrown"]

SyncTags == {"sync-comparisons", "sync-prices"}

\* The windows self.clients.matchAll() can return.
Clients == {"window-1"}

\* The host dispatches a sync event; the handler acts on one tag only.
SyncEvent(p, tag) ==
  /\ state = "activated"
  /\ pc[p] = "idle"
  /\ \A q \in Procs : q < p => pc[q] # "idle"
  /\ data' = [data EXCEPT ![p] = [kind |-> "tag", text |-> tag]]
  /\ strategy' = [strategy EXCEPT ![p] = "sync"]
  /\ pc' = [pc EXCEPT ![p] = IF tag = "sync-comparisons" THEN "sync_matchAll" ELSE "done"]
  /\ result' = [result EXCEPT ![p] =
                  IF tag = "sync-comparisons" THEN Pending ELSE PassThrough]
  /\ UNCHANGED <<storeVars, now, ticks, faults, actVars, req, cached, response,
                 headers, put, hist, instVars, cls>>

\* syncPendingComparisons: await self.clients.matchAll() resolves; every
\* client is sent {type: 'SYNC_COMPLETE'}.
SyncPost(p, cs) ==
  /\ pc[p] = "sync_matchAll"
  /\ result' = [result EXCEPT ![p] =
                  [kind |-> "posted", to |-> cs, type |-> "SYNC_COMPLETE"]]
  /\ pc' = [pc EXCEPT ![p] = "done"]
  /\ UNCHANGED <<storeVars, now, ticks, faults, actVars, req, strategy, cached,
                 response, headers, put, hist, instVars, data, cls>>

\* The objects a push payload can be the JSON text of: members title, body
\* and url, each a string, in insertion order.
PushObjects ==
  {<<>>,
   <<[k |-> "title", v |-> JStr("Oferta")]>>,
   <<[k |-> "title", v |-> JStr("")], [k |-> "url", v |-> JStr("/ofertas")]>>,
   <<[k |-> "title", v |-> JStr("Oferta")], [k |-> "body", v |-> JStr("Arroz 5kg")],
     [k |-> "url", v |-> JStr("/ofertas")]>>}

\* The texts a push message can carry.
PushTexts ==
  {JSONStringify(kvs) : kvs \in PushObjects}
    \cup {"null", "Oferta", "{\"title\":\"Oferta\"", ""}

PushPayloads == {NoData} \cup {[kind |-> "text", text |-> t] : t \in PushTexts}

SyntaxError == [kind |-> "SyntaxError"]

JNull == [kind |-> "null"]

\* The members of an object as a function from their names to their strings.
JObject(kvs) ==
  [kind |-> "object",
   members |-> [n \in {kvs[i].k : i \in 1 .. Len(kvs)} |->
                  kvs[CHOOSE i \in 1 .. Len(kvs) : kvs[i].k = n].v.s]]

\* PushMessageData.json(): JSON.parse of the text; throws a SyntaxError when
\* the text is not JSON.
JSONParse(text) ==
  IF text = "null" THEN JNull
  ELSE IF \E kvs \in PushObjects : JSONStringify(kvs) = text
    THEN JObject(CHOOSE kvs \in PushObjects : JSONStringify(kvs) = text)
  ELSE SyntaxError

\* data.<name> || dflt
OrDefault(d, name, dflt) ==
  IF name \in DOMAIN d /\ d[name] # "" THEN d[name] ELSE dflt

NoMembers == [n \in {} |-> ""]

\* const data = event.data?.json() || {}
PushDataOf(d) ==
  IF d = NoData THEN NoMembers
  ELSE IF JSONParse(d.text).kind = "object" THEN JSONParse(d.text).members
  ELSE NoMembers

\* self.registration.showNotification(data.title || ..., {...}); the default
\* title and body are written here in ASCII letters.
Notification(d) ==
  [kind |-> "notification",
   title |-> OrDefault(d, "title", "PrecoZap"),
   body |-> OrDefault(d, "body", "Novos precos disponiveis!"),
   icon |-> "/icons/icon-192x192.png",
   badge |-> "/icons/icon-96x96.png",
   vibrate |-> <<200, 100, 200>>,
   url |-> OrDefault(d, "url", "/")]

\* The host dispatches a push event.  json() throws before showNotification
\* is reached when the payload is not JSON; nothing catches it.
PushEvent(p, d) ==
  /\ state = "activated"
  /\ pc[p] = "idle"
  /\ \A q \in Procs : q < p => pc[q] # "idle"
  /\ data' = [data EXCEPT ![p] = d]
  /\ strategy' = [strategy EXCEPT ![p] = "push"]
  /\ pc' = [pc EXCEPT ![p] = "done"]
  /\ result' = [result EXCEPT ![p] =
                  IF d # NoData /\ JSONParse(d.text) = SyntaxError THEN Thrown
                  ELSE Notification(PushDataOf(d))]
  /\ UNCHANGED <<storeVars, now, ticks, faults, actVars, req, cached, response,
                 headers, put, hist, instVars, cls>>

\* The user clicks the notification: it is closed and
\* clients.openWindow(event.notification.data?.url || '/') is called.
NotificationClick(p) ==
  /\ strategy[p] = "push"
  /\ result[p].kind = "notification"
  /\ result' = [result EXCEPT ![p] =
                  [kind |-> "window",
                   url |-> IF result[p].url # "" THEN result[p].url ELSE "/"]]
  /\ UNCHANGED <<storeVars, now, ticks, faults, actVars, pc, req, strategy,
                 cached, response, headers, put, hist, instVars, data, cls>>

\* ------------------------------------------- the fetch listener's checks
\* The URLs and deployments the chain of checks is applied to.
ClsSchemes == {<<"http">>, <<"http", "s">>, <<"chrome-extension">>}

ClsHostnames ==
  {<<"localhost">>, <<"127.0.0.1">>, <<"precozap.app">>,
   <<"nominatim", ".", "openstreetmap", ".org">>, <<"overpass-api", ".de">>,
   <<"unpkg.com">>, <<"fonts.googleapis", ".com">>, <<"fonts.gstatic", ".com">>,
   <<"unpkg.com", ".", "overpass-api", ".de">>,
   <<"nominatim", ".", "precozap.app">>,
   <<"example", ".org">>}

ClsPorts == {"", "8080"}

ClsLocations ==
  {SelfOrigin,
   Origin(URL(<<"http">>, <<"localhost">>, "8080")),
   Origin(URL(<<"http", "s">>, <<"unpkg.com">>, "")),
   Origin(URL(<<"http", "s">>, <<"nominatim", ".", "precozap.app">>, ""))}

NoCls == [url |-> URL(<<>>, <<>>, ""), location |-> SelfOrigin, out |-> "none"]

\* The fetch listener runs its checks on cls.url in the deployment
\* cls.location.
ClassifyRequest ==
  /\ cls.out = "none"
  /\ cls' = [cls EXCEPT !.out = ClassifyUrl(cls.url, cls.location)]
  /\ UNCHANGED <<storeVars, now, ticks, faults, actVars, procVars, instVars, data>>

\* ------------------------------------------------------------- Init
\* The stores the worker finds: any of the four names, oldest first, with
\* entries an earlier run of this program wrote.
OldEntry == Response(200, "old", NetHeaders)

OlderEntry == Response(200, "older", NetHeaders)

StampedOldEntry == Response(200, "old", HeadersSet(NetHeaders, "sw-cached-at", toString(StartNow)))

\* An entry the page put in the API store, without the header.
UnstampedEntry == Response(200, "page", NetHeaders)

InitKeyOrder == <<OLD_SHELL, OLD_API, CACHE_NAME, API_CACHE>>

InitStore(keys, shellHas, apiEntry) ==
  [n \in StoreNames |->
    [r \in Keys |->
      IF ~Includes(keys, n) THEN Undefined
      ELSE IF n = CACHE_NAME /\ r \in shellHas THEN OldEntry
      ELSE IF n = OLD_SHELL /\ r \in {"shell", "cdn"} THEN OlderEntry
      ELSE IF n = API_CACHE /\ r = "geo" THEN apiEntry
      ELSE IF n = OLD_API /\ r = "geo" THEN StampedOldEntry
      ELSE Undefined]]

\* No event handled yet.
InitHandlers ==
  /\ now = StartNow
  /\ ticks = 0
  /\ faults = 0
  /\ actPc = "idle"
  /\ actKeys = <<>>
  /\ delPending = {}
  /\ delRejected = FALSE
  /\ claimed = FALSE
  /\ pc = [p \in Procs |-> "idle"]
  /\ req = [p \in Procs |-> "none"]
  /\ strategy = [p \in Procs |-> "none"]
  /\ cached = [p \in Procs |-> Undefined]
  /\ response = [p \in Procs |-> Undefined]
  /\ headers = [p \in Procs |-> NoHeaders]
  /\ result = [p \in Procs |-> Pending]
  /\ put = [p \in Procs |-> NoPut]
  /\ hist = [p \in Procs |-> NoHist]
  /\ data = [p \in Procs |-> NoData]

\* The worker is installed and waits for its activation.
Init ==
  /\ state = "installed"
  /\ \E names \in SUBSET StoreNames :
       cacheKeys = SelectSeq(InitKeyOrder, LAMBDA k : k \in names)
  /\ \E shellHas \in SUBSET {"shell", "cdn"}, apiEntry \in {Undefined, StampedOldEntry} :
       store = InitStore(cacheKeys, shellHas, apiEntry)
  /\ InitHandlers
  /\ instPc = "done"
  /\ assets = NoAssets
  /\ skipWaitingCalled = TRUE
  /\ cls = NoCls

Next ==
  \/ ActivateEvent
  \/ ActKeys
  \/ \E k \in StoreNames : DeleteDone(k)
  \/ \E k \in StoreNames : DeleteFault(k)
  \/ ActClaim
  \/ ActReject
  \/ Tick
  \/ \E p \in Procs, r \in Requests : FetchEvent(p, r)
  \/ \E p \in Procs, outcome \in NetOutcomes : NoFetch(p, outcome)
  \/ \E p \in Procs : CfMatch(p)
  \/ \E p \in Procs, outcome \in NetOutcomes : CfFetch(p, outcome)
  \/ \E p \in Procs : CfOpen(p)
  \/ \E p \in Procs : SwrOpen(p)
  \/ \E p \in Procs : SwrMatch(p)
  \/ \E p \in Procs, outcome \in NetOutcomes : SwrFetch(p, outcome)
  \/ \E p \in Procs, outcome \in NetOutcomes : NfFetch(p, outcome)
  \/ \E p \in Procs : NfOpen(p)
  \/ \E p \in Procs : NfText(p)
  \/ \E p \in Procs : NfTextFail(p)
  \/ \E p \in Procs : NfCatchOpen(p)
  \/ \E p \in Procs : NfCatchMatch(p)
  \/ \E p \in Procs : StoreFault(p)
  \/ \E p \in Procs : PutDone(p)
  \/ \E p \in Procs : PutFault(p)

Spec == Init /\ [][Next]_vars

\* Fairness: the host runs every write in flight to its end.
LiveSpec ==
  /\ Init
  /\ [][Next]_vars
  /\ \A p \in Procs : WF_vars(PutDone(p) \/ PutFault(p))

\* The whole life of the worker: it is yet to be installed, the stores may
\* hold what the page put there, and every event of the program can arrive.
FullInit ==
  /\ state = "installing"
  /\ \E names \in SUBSET StoreNames :
       cacheKeys = SelectSeq(InitKeyOrder, LAMBDA k : k \in names)
  /\ \E shellHas \in SUBSET {"shell", "cdn"},
        apiEntry \in {Undefined, StampedOldEntry, UnstampedEntry} :
       store = InitStore(cacheKeys, shellHas, apiEntry)
  /\ InitHandlers
  /\ instPc = "idle"
  /\ assets = NoAssets
  /\ skipWaitingCalled = FALSE
  /\ cls = NoCls

FullNext ==
  \/ InstallEvent
  \/ InstOpen
  \/ \E i \in 1 .. Len(PRECACHE), outcome \in NetOutcomes : AssetFetch(i, outcome)
  \/ InstAddAll
  \/ InstSkipWaiting
  \/ InstReject
  \/ InstFault
  \/ Next
  \/ \E p \in Procs, tag \in SyncTags : SyncEvent(p, tag)
  \/ \E p \in Procs, cs \in SUBSET Clients : SyncPost(p, cs)
  \/ \E p \in Procs, d \in PushPayloads : PushEvent(p, d)
  \/ \E p \in Procs : NotificationClick(p)

FullSpec == FullInit /\ [][FullNext]_vars

\* The fetch listener's checks alone, on any URL in any deployment.
ClsInit ==
  /\ state = "activated"
  /\ cacheKeys = <<>>
  /\ store = InitStore(<<>>, {}, Undefined)
  /\ InitHandlers
  /\ instPc = "done"
  /\ assets = NoAssets
  /\ skipWaitingCalled = TRUE
  /\ \E scheme \in ClsSchemes, hostname \in ClsHostnames, port \in ClsPorts,
        location \in ClsLocations :
       cls = [url |-> URL(scheme, hostname, port), location |-> location,
              out |-> "none"]

ClsNext == ClassifyRequest

ClsSpec == ClsInit /\ [][ClsNext]_vars

\* ======================================================== properties
Strategies ==
  {"networkOnly", "networkFirstWithCache", "cacheFirst", "staleWhileRevalidate"}

\* ---- C1
\* C1: once a fetch event's strategy has run, respondWith has a response,
\* whatever the network outcome and whatever the store held (cache-storage
\* faults aside).  The code breaks it: staleWhileRevalidate with nothing
\* cached and a failing network resolves with undefined.
C1_EveryStrategyResponds ==
  \A p \in Procs :
    (pc[p] = "done" /\ strategy[p] \in Strategies /\ ~hist[p].storeFault)
      => IsResponse(result[p])

\* ---- C2
\* C2 as claimed: in a staleWhileRevalidate whose fetch returned an ok
\* response, the fresh copy is in the shell store once the fetch's result is
\* delivered.
C2_WrittenBeforeDelivery ==
  \A p \in Procs :
    (strategy[p] = "staleWhileRevalidate" /\ hist[p].net = "ok")
      => /\ put[p].state = "written"
         /\ store[CACHE_NAME][req[p]] = response[p]

\* C2 amended: in a staleWhileRevalidate whose fetch returned an ok response,
\* the put of the fresh copy into the shell store has been issued once the
\* fetch's result is delivered (it takes effect, or fails, later); a fetch
\* that did not return ok issues none.
C2_PutIssuedBeforeDelivery ==
  \A p \in Procs :
    (strategy[p] = "staleWhileRevalidate" /\ hist[p].net # "none")
      => IF hist[p].net = "ok"
         THEN /\ put[p].state \in {"pending", "written", "failed"}
              /\ put[p].name = CACHE_NAME
              /\ put[p].req = req[p]
              /\ put[p].entry = response[p]
              /\ response[p].body = FreshBody(p)
         ELSE put[p] = NoPut

\* The fetch's result was delivered to the page while its write was in flight.
C2_Witness ==
  \E p \in Procs :
    /\ strategy[p] = "staleWhileRevalidate"
    /\ hist[p].net = "ok"
    /\ result[p] = response[p]
    /\ put[p].state = "pending"
    /\ store[CACHE_NAME][req[p]] = Undefined

\* ---- C3
\* C3 as claimed: a cacheFirst request issued after an earlier cacheFirst of
\* the same request returned an ok network response calls fetch no more.
C3_SecondServedWithoutFetch ==
  \A p \in Procs : hist[p].priorOk => hist[p].fetchCalls = 0

\* C3 amended: a cacheFirst request issued after the put of an earlier
\* cacheFirst of the same request (which returned an ok network response) has
\* taken effect calls fetch no more and, unless cache storage fails, is
\* answered with the stored entry.
C3_SecondServedOnceWritten ==
  \A p \in Procs :
    hist[p].priorWritten
      => /\ hist[p].fetchCalls = 0
         /\ hist[p].net = "none"
         /\ (pc[p] = "done" /\ ~hist[p].storeFault)
              => /\ IsResponse(result[p])
                 /\ result[p] = cached[p]
                 /\ \E q \in Procs : q # p /\ result[p].body = FreshBody(q)

C3_Witness ==
  \E p \in Procs :
    /\ hist[p].priorWritten
    /\ pc[p] = "done"
    /\ IsResponse(result[p])
    /\ result[p] = store[CACHE_NAME][req[p]]

\* ---- C4
\* C4 as claimed: when networkFirstWithCache has returned an ok network
\* response, the API store holds the stamped copy of that response.
C4_StoredAtReturn ==
  \A p \in Procs :
    (strategy[p] = "networkFirstWithCache" /\ pc[p] = "done"
       /\ hist[p].net = "ok" /\ result[p] = response[p])
      => /\ store[API_CACHE][req[p]] # Undefined
         /\ store[API_CACHE][req[p]].body = response[p].body
         /\ "sw-cached-at" \in DOMAIN store[API_CACHE][req[p]].headers

\* C4 amended: when networkFirstWithCache returns an ok network response, it
\* has issued the put, into the API store and under the request, of a copy
\* whose sw-cached-at is the decimal string of a time between the fetch's
\* resolution and the return; the caller gets the original response, without
\* that header; and when the put takes effect the API store holds that copy.
C4_StampedPutIssuedAtReturn ==
  /\ [][\A p \in Procs :
          (pc[p] = "nf_text" /\ pc'[p] = "done")
            => /\ result'[p] = response[p]
               /\ Ok(result'[p])
               /\ "sw-cached-at" \notin DOMAIN result'[p].headers
               /\ put'[p].state = "pending"
               /\ put'[p].name = API_CACHE
               /\ put'[p].req = req[p]
               /\ put'[p].entry.body = response[p].body
               /\ put'[p].entry.status = response[p].status
               /\ "sw-cached-at" \in DOMAIN put'[p].entry.headers
               /\ ParseInt(put'[p].entry.headers["sw-cached-at"]) >= hist[p].tResolved
               /\ ParseInt(put'[p].entry.headers["sw-cached-at"]) <= now'
               /\ hist[p].tResolved >= StartNow]_vars
  /\ [][\A p \in Procs :
          (put[p].state = "pending" /\ put'[p].state = "written")
            => store'[put[p].name][put[p].req] = put[p].entry]_vars

\* The stamped copy is in the API store, the caller has the original, and
\* the clock moved between the fetch's resolution and the stamp.
C4_Witness ==
  \E p \in Procs :
    /\ strategy[p] = "networkFirstWithCache"
    /\ pc[p] = "done"
    /\ result[p] = response[p]
    /\ put[p].state = "written"
    /\ store[API_CACHE][req[p]] = put[p].entry
    /\ ParseInt(put[p].entry.headers["sw-cached-at"]) > StartNow

\* ---- C5
\* The times the clock can show, and the time an entry's sw-cached-at is the
\* decimal string of.
ClockTimes ==
  {StartNow + i + j * (TTL_MS - 1) : i \in 0 .. MaxTicks, j \in 0 .. MaxTicks}

StampTime(entry) ==
  CHOOSE t \in ClockTimes : toString(t) = entry.headers["sw-cached-at"]

IsOfflineStub(r) ==
  /\ IsResponse(r)
  /\ r.body = "{\"error\":\"offline\",\"elements\":[]}"
  /\ r.headers = [n \in {"Content-Type"} |-> <<"application/json">>]

\* C5: when the network attempt of a geo-data request has failed, the answer
\* is the API store's entry for the request if there is one less than
\* 30 minutes old, and the JSON stub {"error":"offline","elements":[]}
\* otherwise; the lookup changes no store, so a repeated failing request
\* inside the window gets the same entry.
C5_FallbackWithinTTL ==
  [][\A p \in Procs :
       (pc[p] = "nf_c_match" /\ pc'[p] = "done" /\ ~hist'[p].storeFault)
         => LET e == store[API_CACHE][req[p]] IN
            /\ IF e # Undefined /\ now - StampTime(e) < 30 * 60 * 1000
               THEN result'[p] = e
               ELSE IsOfflineStub(result'[p])
            /\ store' = store
            /\ cacheKeys' = cacheKeys
            /\ put' = put]_vars

\* Two failing requests were both answered with the same stored entry.
C5_Witness ==
  \E p, q \in Procs :
    /\ p # q
    /\ strategy[p] = "networkFirstWithCache" /\ strategy[q] = "networkFirstWithCache"
    /\ pc[p] = "done" /\ pc[q] = "done"
    /\ hist[p].net \in {"bad", "error"} /\ hist[q].net \in {"bad", "error"}
    /\ IsResponse(result[p])
    /\ result[p] = store[API_CACHE][req[p]]
    /\ result[q] = result[p]

\* ---- C6
\* C6: whatever became of the deletions, the activate handler has called
\* clients.claim() by the time it ends.  The code breaks it: a rejected
\* caches.delete rejects Promise.all, and the .then that claims is skipped.
C6_ClaimDespiteDeleteFailure ==
  actPc \in {"done", "rejected"} => claimed

\* ---- C7
SeqRange(q) == {q[i] : i \in 1 .. Len(q)}

\* C7: an activation that completes has deleted exactly the stores that
\* existed when it listed them and are neither the shell nor the API store;
\* no step of the activation changes an entry of the shell or the API store;
\* and clients.claim() is called only when every deletion issued has settled.
C7_ActivationDeletesExactlyStale ==
  /\ [][(claimed' /\ ~claimed)
          => /\ delPending = {}
             /\ ~delRejected
             /\ \A k \in SeqRange(actKeys) :
                  (k \in SeqRange(cacheKeys')) <=> (k \in {CACHE_NAME, API_CACHE})
             /\ \A k \in StoreNames \ SeqRange(actKeys) :
                  k \notin SeqRange(cacheKeys')]_vars
  /\ [][state = "activating"
          => /\ store'[CACHE_NAME] = store[CACHE_NAME]
             /\ store'[API_CACHE] = store[API_CACHE]
             /\ SeqRange(cacheKeys) \ SeqRange(cacheKeys')
                  \subseteq (StoreNames \ {CACHE_NAME, API_CACHE})]_vars

\* All four stores existed; the activation completed and left the shell and
\* the API store with their entries.
C7_Witness ==
  /\ claimed
  /\ actPc = "done"
  /\ cacheKeys = <<CACHE_NAME, API_CACHE>>
  /\ store[CACHE_NAME]["shell"] = OldEntry
  /\ store[API_CACHE]["geo"] = StampedOldEntry
  /\ store[OLD_SHELL] = EmptyStore
  /\ \A p \in Procs : pc[p] = "idle"

\* ---- C8
\* C8: a staleWhileRevalidate that finds an entry in the shell store answers
\* with that entry before the network outcome is known, and the outcome,
\* whichever it is, does not change the answer.
C8_CachedReturnedWithoutWaiting ==
  /\ [][\A p \in Procs :
          (pc[p] = "swr_match" /\ pc'[p] = "swr_fetch"
             /\ store[CACHE_NAME][req[p]] # Undefined)
            => /\ result'[p] = store[CACHE_NAME][req[p]]
               /\ hist'[p].net = "none"]_vars
  /\ [][\A p \in Procs :
          (strategy[p] = "staleWhileRevalidate" /\ IsResponse(result[p]))
            => result'[p] = result[p]]_vars

\* The old entry was the answer, and the network then succeeded.
C8_Witness ==
  \E p \in Procs :
    /\ strategy[p] = "staleWhileRevalidate"
    /\ pc[p] = "done"
    /\ hist[p].net = "ok"
    /\ result[p] = OldEntry
    /\ result[p] = cached[p]

\* ---- C9
\* C9: when a staleWhileRevalidate answered from the store and its background
\* fetch succeeded, the write of the fresh copy comes to an end, and when it
\* takes effect (it may instead fail) the shell store holds the fresh copy
\* under the request, in place of the entry the answer was taken from.
C9_BackgroundRefresh ==
  /\ \A p \in Procs :
       (strategy[p] = "staleWhileRevalidate" /\ hist[p].early /\ hist[p].net = "ok")
         ~> (put[p].state \in {"written", "failed"})
  /\ [][\A p \in Procs :
          (strategy[p] = "staleWhileRevalidate" /\ hist[p].early
             /\ put[p].state # "written" /\ put'[p].state = "written")
            => /\ store'[CACHE_NAME][req[p]] = response[p]
               /\ store'[CACHE_NAME][req[p]].body = FreshBody(p)
               /\ store'[CACHE_NAME][req[p]] # result[p]]_vars

\* The answer was the old entry and the store now holds the fresh copy.
C9_Witness ==
  \E p \in Procs :
    /\ strategy[p] = "staleWhileRevalidate"
    /\ hist[p].early
    /\ result[p] = OldEntry
    /\ put[p].state = "written"
    /\ store[CACHE_NAME][req[p]].body = FreshBody(p)

\* ---- C10
IsLoopback(r) ==
  r \in Requests
    /\ (Url(r).hostname = <<"localhost">> \/ Url(r).hostname = <<"127.0.0.1">>)

\* C10: a request to a loopback host whose fetch fails is answered with
\* exactly the JSON stub {"error":"Servidor offline","ok":false}; otherwise
\* with the network's response; and no step of its handling creates, writes
\* or deletes a store.
C10_LoopbackNetworkOnly ==
  /\ [](\A p \in Procs :
          (IsLoopback(req[p]) /\ pc[p] = "done")
            => /\ hist[p].net = "error"
                 => /\ IsResponse(result[p])
                    /\ result[p].body = "{\"error\":\"Servidor offline\",\"ok\":false}"
                    /\ result[p].headers
                         = [n \in {"Content-Type"} |-> <<"application/json">>]
               /\ hist[p].net # "error"
                    => /\ IsResponse(result[p])
                       /\ result[p].body = FreshBody(p)
               /\ put[p] = NoPut)
  /\ [][\A p \in Procs :
          (pc'[p] # pc[p] /\ IsLoopback(req'[p]))
            => /\ cacheKeys' = cacheKeys
               /\ store' = store
               /\ put' = put
               /\ delPending' = delPending]_vars

C10_Witness ==
  \E p \in Procs :
    /\ IsLoopback(req[p])
    /\ pc[p] = "done"
    /\ hist[p].net = "error"
    /\ result[p] = ServidorOfflineResponse

\* ---- C11
\* The categories of a URL, each on its own.
NonHttp(u) == u.scheme \notin {<<"http">>, <<"http", "s">>}

LoopbackHost(u) == u.hostname \in {<<"localhost">>, <<"127.0.0.1">>}

GeoHost(u) ==
  \E i \in 1 .. Len(u.hostname) :
    u.hostname[i] \in {"openstreetmap", "overpass-api", "nominatim"}

CdnHost(u) ==
  \E i \in 1 .. Len(u.hostname) :
    u.hostname[i] \in {"unpkg.com", "fonts.googleapis", "fonts.gstatic"}

SameOrigin(u, location) == <<u.scheme, u.hostname, u.port>> = location

\* C11: the fetch listener tries non-HTTP, loopback, geo-data, CDN and
\* same-origin in this order and the first match decides: every URL gets
\* exactly one of the four strategies or is passed through; a loopback URL
\* that is also same-origin gets network-only, a host with a geo-data and a
\* CDN marker gets network-first-with-TTL.
C11_FirstMatchWins ==
  cls.out # "none"
    => LET u == cls.url IN
       /\ cls.out \in Strategies \cup {"ignored"}
       /\ cls.out = "ignored"
            <=> (NonHttp(u)
                   \/ (~LoopbackHost(u) /\ ~GeoHost(u) /\ ~CdnHost(u)
                         /\ ~SameOrigin(u, cls.location)))
       /\ cls.out = "networkOnly" <=> (~NonHttp(u) /\ LoopbackHost(u))
       /\ cls.out = "networkFirstWithCache"
            <=> (~NonHttp(u) /\ ~LoopbackHost(u) /\ GeoHost(u))
       /\ cls.out = "cacheFirst"
            <=> (~NonHttp(u) /\ ~LoopbackHost(u) /\ ~GeoHost(u) /\ CdnHost(u))
       /\ cls.out = "staleWhileRevalidate"
            <=> (~NonHttp(u) /\ ~LoopbackHost(u) /\ ~GeoHost(u) /\ ~CdnHost(u)
                   /\ SameOrigin(u, cls.location))
       /\ (~NonHttp(u) /\ LoopbackHost(u) /\ SameOrigin(u, cls.location))
            => cls.out = "networkOnly"
       /\ (~NonHttp(u) /\ GeoHost(u) /\ CdnHost(u))
            => cls.out = "networkFirstWithCache"

\* A request of the application served from localhost was classified.
C11_Witness ==
  /\ cls.out = "networkOnly"
  /\ LoopbackHost(cls.url)
  /\ SameOrigin(cls.url, cls.location)

\* ---- C12
AssetFailed == \E i \in 1 .. Len(PRECACHE) : assets[i] \in {"bad", "error"}

\* C12: skipWaiting is called only when every asset of the pre-cache list
\* has been fetched with an ok response and is stored in the shell store;
\* when the fetch of an asset has failed, skipWaiting is never called, the
\* install handler can only end rejected, and the worker is never installed,
\* activating or activated.
C12_InstallAllOrNothing ==
  /\ [][(skipWaitingCalled' /\ ~skipWaitingCalled)
          => /\ \A i \in 1 .. Len(PRECACHE) :
                  /\ assets[i] = "ok"
                  /\ store[CACHE_NAME][RequestKey(PRECACHE[i])]
                       = [kind |-> "response", status |-> 200, body |-> PRECACHE[i],
                          headers |-> NetHeaders]
             /\ CACHE_NAME \in SeqRange(cacheKeys)
             /\ state = "installing"
             /\ state' = "installed"]_vars
  /\ [](AssetFailed
          => /\ ~skipWaitingCalled
             /\ state \in {"installing", "redundant"}
             /\ instPc \in {"addAll", "rejected"}
             /\ actPc = "idle")
  /\ [][(AssetFailed /\ instPc' # instPc)
          => (instPc' = "rejected" /\ state' = "redundant")]_vars

\* The install ended rejected with three assets fetched and one failed.
C12_Witness ==
  /\ instPc = "rejected"
  /\ state = "redundant"
  /\ ~skipWaitingCalled
  /\ \E j \in 1 .. Len(PRECACHE) :
       /\ assets[j] = "error"
       /\ \A i \in 1 .. Len(PRECACHE) : i # j => assets[i] = "ok"

\* ---- C13
\* C13: a cacheFirst or networkFirstWithCache in which an awaited cache-store
\* operation failed ends with its promise rejected, never with a response
\* (the 503 "Offline", the JSON stub or a stored entry).  The code breaks it:
\* caches.open sits inside the try block of both strategies, so its
\* rejection is caught and answered with the fallback.
C13_StoreFaultPropagates ==
  \A p \in Procs :
    (strategy[p] \in {"cacheFirst", "networkFirstWithCache"}
       /\ hist[p].storeFault /\ pc[p] = "done")
      => /\ ~IsResponse(result[p])
         /\ result[p].kind = "rejected"

\* ---- C14
\* C14: a push event whose payload is absent or is not JSON ends with the
\* notification of the default title, the default body and data.url "/"
\* displayed.  The code breaks it for the payload that is not JSON: json()
\* throws and showNotification is never called.
C14_PushParseFailureRecovered ==
  \A p \in Procs :
    (strategy[p] = "push"
       /\ (data[p].kind = "none"
             \/ data[p].text \in {"Oferta", "{\"title\":\"Oferta\"", ""}))
      => /\ result[p].kind \in {"notification", "window"}
         /\ result[p].kind = "notification"
              => /\ result[p].title = "PrecoZap"
                 /\ result[p].body = "Novos precos disponiveis!"
         /\ result[p].url = "/"

\* ---- C15
\* Handler p's put takes effect in this step.
PutTakesEffect(p) == put[p].state = "pending" /\ put'[p].state = "written"

\* C15: an entry of the API store is written only by the put of a
\* networkFirstWithCache handling a geo-data request; an entry of the shell
\* store only by the install handler's addAll (an asset of the pre-cache
\* list), by the put of a cacheFirst handling a CDN request or by the put of
\* a staleWhileRevalidate handling a same-origin request; no other store is
\* written; and every put a handler issues goes to its strategy's store.
C15_StoreOwnership ==
  /\ [][\A r \in Keys :
          /\ (store'[API_CACHE][r] # store[API_CACHE][r]
                /\ store'[API_CACHE][r] # Undefined)
               => \E p \in Procs :
                    /\ PutTakesEffect(p)
                    /\ strategy[p] = "networkFirstWithCache"
                    /\ req[p] = r
                    /\ GeoHost(Url(r))
          /\ (store'[CACHE_NAME][r] # store[CACHE_NAME][r]
                /\ store'[CACHE_NAME][r] # Undefined)
               => \/ /\ instPc = "addAll"
                     /\ instPc' = "then"
                     /\ \E i \in 1 .. Len(PRECACHE) : r = RequestKey(PRECACHE[i])
                  \/ \E p \in Procs :
                       /\ PutTakesEffect(p)
                       /\ req[p] = r
                       /\ \/ strategy[p] = "cacheFirst" /\ CdnHost(Url(r))
                          \/ /\ strategy[p] = "staleWhileRevalidate"
                             /\ SameOrigin(Url(r), SelfOrigin)
          /\ \A n \in StoreNames \ {CACHE_NAME, API_CACHE} :
               store'[n][r] # store[n][r] => store'[n][r] = Undefined]_vars
  /\ [](\A p \in Procs :
          put[p].state # "none"
            => /\ strategy[p] \in {"networkFirstWithCache", "cacheFirst",
                                   "staleWhileRevalidate"}
               /\ put[p].name = (IF strategy[p] = "networkFirstWithCache"
                                 THEN "precozap-api-v1" ELSE "precozap-v1")
               /\ put[p].req = req[p])

\* The install populated the shell store, a cacheFirst wrote to it and a
\* networkFirstWithCache wrote to the API store.
C15_Witness ==
  /\ store[CACHE_NAME]["/manifest.json"] # Undefined
  /\ \E p, q \in Procs :
       /\ strategy[p] = "cacheFirst"
       /\ put[p].state = "written"
       /\ store[CACHE_NAME][req[p]] = put[p].entry
       /\ strategy[q] = "networkFirstWithCache"
       /\ put[q].state = "written"
       /\ store[API_CACHE][req[q]] = put[q].entry

\* ---- C16
\* C16: when cacheFirst answers from the cache, the answer is the shell
\* store's entry for the request.  The code breaks it: caches.match searches
\* every store of the origin, oldest first, so an entry of a store the
\* activation did not delete is returned.
C16_HitFromShellStoreOnly ==
  [][\A p \in Procs :
       (pc[p] = "cf_match" /\ pc'[p] = "done" /\ IsResponse(result'[p]))
         => result'[p] = store["precozap-v1"][req[p]]]_vars

\* ---- C17
\* The time an entry counts as cached at: that of its sw-cached-at, zero when
\* it has none.
CachedAtOrZero(entry) ==
  IF "sw-cached-at" \in DOMAIN entry.headers THEN StampTime(entry) ELSE 0

\* C17: on the failure path the answer is the stored entry exactly when the
\* current time minus its sw-cached-at (zero when the header is missing, so
\* such an entry is always stale) is less than 30 minutes, the JSON stub
\* otherwise; the failure path changes no entry, issues no write and deletes
\* no store; and an entry of the API store, expired or not, stays as it is
\* until the put of a networkFirstWithCache whose fetch succeeded replaces it.
C17_LazyReadOnlyExpiry ==
  /\ [][\A p \in Procs :
          (pc[p] = "nf_c_match" /\ pc'[p] = "done" /\ ~hist'[p].storeFault)
            => LET e == store[API_CACHE][req[p]] IN
               /\ (e # Undefined /\ now - CachedAtOrZero(e) < 1800000)
                    => result'[p] = e
               /\ (e = Undefined \/ now - CachedAtOrZero(e) >= 1800000)
                    => IsOfflineStub(result'[p])
               /\ (e # Undefined /\ "sw-cached-at" \notin DOMAIN e.headers)
                    => IsOfflineStub(result'[p])]_vars
  /\ [][\A p \in Procs :
          (pc[p] \in {"nf_c_open", "nf_c_match"} /\ pc'[p] # pc[p])
            => /\ store' = store
               /\ put' = put
               /\ SeqRange(cacheKeys) \subseteq SeqRange(cacheKeys')]_vars
  /\ [][\A r \in Keys :
          (store[API_CACHE][r] # Undefined
             /\ store'[API_CACHE][r] # store[API_CACHE][r])
            => \E p \in Procs :
                 /\ PutTakesEffect(p)
                 /\ strategy[p] = "networkFirstWithCache"
                 /\ hist[p].net = "ok"
                 /\ store'[API_CACHE][r] = put[p].entry
                 /\ put[p].entry.body = FreshBody(p)]_vars

\* A failing request found an entry 30 minutes old, was answered with the
\* stub, and the entry is still in the API store.
C17_Witness ==
  \E p \in Procs :
    /\ strategy[p] = "networkFirstWithCache"
    /\ pc[p] = "done"
    /\ hist[p].net = "error"
    /\ cached[p] = StampedOldEntry
    /\ IsOfflineStub(result[p])
    /\ store[API_CACHE][req[p]] = StampedOldEntry

\* ---- C18
\* C18: whatever the interleaving of the handlers, the entry a put carries is
\* a whole snapshot of its own invocation (for networkFirstWithCache the
\* status and body of the invocation's response under the invocation's own
\* stamped headers; for the other two the invocation's response); a put that
\* takes effect replaces the entry whole; so every entry of the shell and
\* the API store is one the worker found or the whole snapshot of one
\* invocation, and the entry that remains is that of the put that took
\* effect last.
C18_WholeSnapshotLastWriteWins ==
  /\ [][\A p \in Procs :
          (pc[p] = "nf_text" /\ pc'[p] = "done")
            => /\ put'[p].entry.status = response[p].status
               /\ put'[p].entry.body = response[p].body
               /\ put'[p].entry.body = FreshBody(p)
               /\ put'[p].entry.headers = headers[p]
               /\ "sw-cached-at" \in DOMAIN headers[p]]_vars
  /\ [](\A p \in Procs :
          (put[p].state # "none" /\ strategy[p] # "networkFirstWithCache")
            => (put[p].entry = response[p] /\ put[p].entry.body = FreshBody(p)))
  /\ [][\A p \in Procs :
          PutTakesEffect(p)
            => /\ store'[put[p].name][put[p].req] = put[p].entry
               /\ put'[p].entry = put[p].entry
               /\ \A n \in StoreNames, r \in Keys :
                    (n # put[p].name \/ r # put[p].req)
                      => store'[n][r] = store[n][r]]_vars
  /\ [][\A n \in {CACHE_NAME, API_CACHE}, r \in Keys :
          store'[n][r] # store[n][r]
            => \E p \in Procs :
                 PutTakesEffect(p) /\ put[p].name = n /\ put[p].req = r]_vars
  /\ [](\A n \in {CACHE_NAME, API_CACHE}, r \in Keys :
          store[n][r] # Undefined
            => \/ store[n][r] \in {OldEntry, StampedOldEntry}
               \/ \E p \in Procs :
                    /\ put[p].state = "written"
                    /\ put[p].name = n
                    /\ put[p].req = r
                    /\ store[n][r] = put[p].entry)

\* Two handlers wrote the same request to the API store; the entry that
\* remains is the whole copy of one of them.
C18_Witness ==
  \E p, q \in Procs :
    /\ p # q
    /\ put[p].state = "written" /\ put[q].state = "written"
    /\ put[p].name = API_CACHE /\ put[q].name = API_CACHE
    /\ put[p].req = put[q].req
    /\ put[p].entry # put[q].entry
    /\ put[p].entry.headers # put[q].entry.headers
    /\ store[API_CACHE][put[q].req] = put[q].entry

\* ---- C19
\* C19: every put a strategy issues carries a copy of the ok response its
\* own fetch returned (status 200 to 299, the network's body), never a
\* response that is not ok nor one of the synthetic fallbacks; every entry of
\* the shell and the API store is an ok response; and every entry of the API
\* store, and every copy on its way there, carries a sw-cached-at that is
\* the decimal string of a time not later than the current time.
C19_OnlyOkResponsesStored ==
  /\ \A p \in Procs :
       put[p].state # "none"
         => /\ hist[p].net = "ok"
            /\ put[p].entry.kind = "response"
            /\ put[p].entry.status >= 200 /\ put[p].entry.status <= 299
            /\ put[p].entry.body = FreshBody(p)
            /\ put[p].entry.body
                 \notin {"Offline", "{\"error\":\"offline\",\"elements\":[]}",
                         "{\"error\":\"Servidor offline\",\"ok\":false}"}
            /\ put[p].name = API_CACHE
                 => /\ "sw-cached-at" \in DOMAIN put[p].entry.headers
                    /\ \E t \in ClockTimes :
                         /\ toString(t) = put[p].entry.headers["sw-cached-at"]
                         /\ t <= now
  /\ \A p \in Procs :
       (pc[p] = "done" /\ hist[p].net \in {"bad", "error"}) => put[p].state = "none"
  /\ \A n \in {CACHE_NAME, API_CACHE}, r \in Keys :
       store[n][r] # Undefined
         => /\ store[n][r].status >= 200 /\ store[n][r].status <= 299
            /\ n = API_CACHE
                 => /\ "sw-cached-at" \in DOMAIN store[n][r].headers
                    /\ \E t \in ClockTimes :
                         /\ toString(t) = store[n][r].headers["sw-cached-at"]
                         /\ t <= now

\* The API store holds a copy stamped before the clock last advanced, and a
\* handler whose fetch returned a response that is not ok stored nothing.
C19_Witness ==
  \E p, q \in Procs :
    /\ put[p].state = "written"
    /\ put[p].name = API_CACHE
    /\ store[API_CACHE][put[p].req] = put[p].entry
    /\ StampTime(put[p].entry) < now
    /\ StampTime(put[p].entry) > StartNow
    /\ pc[q] = "done"
    /\ hist[q].net = "bad"
    /\ strategy[q] \in {"cacheFirst", "staleWhileRevalidate"}
    /\ put[q].state = "none"

\* ---- C20
\* C20: once an activation has completed successfully (clients.claim() was
\* called), the stores that exist are among the shell store and the API
\* store, whatever fetch, sync and push events follow and however they
\* interleave; and no step taken after the worker is activated creates a
\* store of another name.
C20_NoOrphanStores ==
  /\ [](claimed => SeqRange(cacheKeys) \subseteq {"precozap-v1", "precozap-api-v1"})
  /\ [][state = "activated"
          => (SeqRange(cacheKeys') \ SeqRange(cacheKeys))
               \subseteq {"precozap-v1", "precozap-api-v1"}]_vars

\* After an activation that completed, a sync event was handled and a
\* geo-data request created the API store and wrote to it.
C20_Witness ==
  /\ claimed
  /\ SeqRange(cacheKeys) = {CACHE_NAME, API_CACHE}
  /\ \E p, q \in Procs :
       /\ strategy[p] = "sync"
       /\ result[p].kind = "posted"
       /\ strategy[q] = "networkFirstWithCache"
       /\ put[q].state = "written"
       /\ cached[q] = Undefined
====
